---- MODULE Spec2Model ----
(***************************************************************************)
(* Session-bridged transport adapter of http-mcp.                          *)
(*                                                                         *)
(* The repository holds four near-duplicate servers (src/index.ts and      *)
(* src/unnamed/part_000..part_002).  They share the session registry and   *)
(* the POST classification and differ in how the response sink is adapted  *)
(* and in what DELETE does.  The variable `variant` fixes, in the initial  *)
(* state, which of the four files is the running program; every handler    *)
(* below is translated per variant.                                        *)
(*                                                                         *)
(* The StreamableHTTPServerTransport and the McpServer are third-party     *)
(* collaborators.  They are the environment: while a handleRequest call is *)
(* outstanding the transport may call the sink (setHeader, writeHead, end) *)
(* in any order (end() at most MaxEnds times on one sink), fire its       *)
(* initialization callback (once per transport, with a fresh identifier    *)
(* from sessionIdGenerator), settle the handleRequest promise either way,  *)
(* and report closure.                                                     *)
(***************************************************************************)
EXTENDS Integers, FiniteSets, Sequences, TLC

\* ------------------------------------------------------------------ bounds
\* transports (sessions) that may be constructed in one run
MaxSessions == 2
\* calls of end() the transport makes on one sink
MaxEnds == 2

Variants == {"index", "part_000", "part_001", "part_002"}
\* the variants that return a Response object built by the handler itself
ResponseVariants == {"index", "part_001"}
\* A slot holds one call from its entry into the handler to the end of its
\* exchange and is then reused.  Spec and SinkSpec follow one call at a time,
\* PairSpec two calls in flight together.
Slots == {1, 2}
One == {1}
Ids == 1..MaxSessions
Trs == 1..MaxSessions

\* the value of headers['mcp-session-id'] when the header is missing
NoSession == 0
\* `let transport` before the handler has assigned it
NoTransport == 0

\* ------------------------------------------------------------ header maps
\* A header mapping is a record over the keys the program or the transport
\* writes; "" (0 for the session identifier) stands for an absent key.
NoHeaders ==
  [ctype |-> "", acao |-> "", acam |-> "", acah |-> "", sid |-> NoSession]

corsHeaders(v) ==
  [NoHeaders EXCEPT
     !.acao = "*",
     !.acam = "GET, POST, PUT, DELETE, OPTIONS",
     !.acah = IF v \in ResponseVariants
                THEN "Content-Type, mcp-session-id"
                ELSE "Content-Type, Authorization, mcp-session-id"]

\* the keys the transport writes on a sink, and the values it writes
NoSinkHeaders == [sid |-> NoSession, acao |-> ""]
OriginVals == {"a", "b"}
StatusVals == {200, 202}
DataVals == {"d1", "d2"}

\* object spread / Object.assign of the sink's headers over a base mapping:
\* every key present in h replaces the key of base
Assign(base, h) ==
  [base EXCEPT !.sid = IF h.sid # NoSession THEN h.sid ELSE @,
               !.acao = IF h.acao # "" THEN h.acao ELSE @]

\* -------------------------------------------------------------- the sink
\* res: statusCode, _headers and (part_001: _data, part_000: responseData)
NewSink == [statusCode |-> 200, headers |-> NoSinkHeaders, data |-> ""]

setHeader(res, k, val) ==
  [res EXCEPT !.headers = [@ EXCEPT ![k] = val]]

\* index.ts declares writeHead(status) and so ignores the header argument
writeHead(v, res, status, h) ==
  [res EXCEPT !.statusCode = status,
              !.headers = IF v = "index" THEN @ ELSE Assign(@, h)]

\* what end(data) stores on the sink itself
endStore(v, res, data) ==
  IF v \in {"part_000", "part_001"} THEN [res EXCEPT !.data = data] ELSE res

\* `data || ''` of a Response body
BodyOr(data) == IF data = "" THEN "empty" ELSE data

\* `if (data) ... return undefined` of the Elysia-context variants
BodyOrUndefined(data) == IF data = "" THEN "undefined" ELSE data

\* the Response the index.ts / part_001 sink resolves its promise with
SinkResponse(v, method, res, data) ==
  [status |-> res.statusCode,
   body |-> BodyOr(data),
   hdrs |-> Assign(IF method = "POST"
                     THEN [corsHeaders(v) EXCEPT !.ctype = "application/json"]
                     ELSE corsHeaders(v),
                   res.headers)]

\* the Elysia context `set` as the CORS middleware leaves it
ContextSet(v) ==
  [status |-> 200,
   headers |-> IF v \in ResponseVariants THEN NoHeaders ELSE corsHeaders(v)]

\* part_000 relay / part_002 originalEnd: copy status and headers into `set`
relaySet(set, res) ==
  [status |-> res.statusCode, headers |-> Assign(set.headers, res.headers)]

NoResponse == [status |-> 0, body |-> "none", hdrs |-> NoHeaders]

\* ----------------------------------------------- fixed responses of /mcp
\* POST: identifier absent/unknown and not an initialize request
BadRequestValue(v) ==
  [status |-> 400, body |-> "rpc-32000",
   hdrs |-> IF v \in ResponseVariants
              THEN [corsHeaders(v) EXCEPT !.ctype = "application/json"]
              ELSE NoHeaders]

BadRequestSet(v, set) ==
  CASE v = "part_000" ->
         [status |-> 400,
          headers |-> [set.headers EXCEPT !.ctype = "application/json"]]
    [] v = "part_002" -> [set EXCEPT !.status = 400]
    [] OTHER -> set

\* POST: the catch block around classification, connect and handleRequest
InternalErrorValue(v) ==
  [status |-> 500, body |-> "rpc-32603",
   hdrs |-> IF v \in ResponseVariants
              THEN [corsHeaders(v) EXCEPT !.ctype = "application/json"]
              ELSE NoHeaders]

InternalErrorSet(v, set) ==
  CASE v = "part_000" ->
         [status |-> 500,
          headers |-> [set.headers EXCEPT !.ctype = "application/json"]]
    [] v = "part_002" -> [set EXCEPT !.status = 500]
    [] OTHER -> set

\* GET (and DELETE of part_000 / part_002): missing or unknown identifier
InvalidSessionValue(v) ==
  [status |-> 400,
   body |-> IF v \in ResponseVariants
              THEN "Invalid session" ELSE "Invalid or missing session ID",
   hdrs |-> IF v \in ResponseVariants THEN corsHeaders(v) ELSE NoHeaders]

InvalidSessionSet(v, set) ==
  IF v \in ResponseVariants THEN set ELSE [set EXCEPT !.status = 400]

\* part_001 GET: the .catch of handleRequest
GetErrorValue(v) ==
  [status |-> 500, body |-> "Internal Error", hdrs |-> corsHeaders(v)]

\* DELETE of index.ts / part_001: the bare acknowledgment
DeleteAckValue(v) ==
  [status |-> 200, body |-> "empty", hdrs |-> corsHeaders(v)]

\* what the serving framework sends for a settled handler: the Response
\* object itself, or the returned value under the context's status/headers
FrameworkResponse(v, value, set) ==
  IF v \in ResponseVariants
    THEN value
    ELSE [status |-> set.status, body |-> value.body, hdrs |-> set.headers]

\* the handler's promise rejected: nothing was caught
Escaped == [status |-> 0, body |-> "unhandled rejection", hdrs |-> NoHeaders]

\* ------------------------------------------------------ parseCurlCommand
\* The function is the same text in part_000, part_001 and part_002.
\* A string is a sequence of pieces.  The characters the parser tells apart
\* are pieces of their own: the blank, the two quote characters, the colon,
\* the braces and the digit; every other piece is a run of text that holds
\* none of them.
Blank == " "

Quotes == {"'", "\""}

Colon == ":"

\* a piece that begins with '-'
Dashed == {"-X", "--request", "-H", "--header", "-d", "--data", "-v"}

\* String.prototype.toUpperCase, piece by piece
toUpperCase(str) ==
  [i \in DOMAIN str |->
     CASE str[i] = "post" -> "POST"
       [] str[i] = "curl" -> "CURL"
       [] str[i] = "u" -> "U"
       [] str[i] = "k" -> "K"
       [] str[i] = "v" -> "V"
       [] str[i] = "w" -> "W"
       [] str[i] = "a" -> "A"
       [] str[i] = "https" -> "HTTPS"
       [] str[i] = "//example.test/x" -> "//EXAMPLE.TEST/X"
       [] str[i] = "Content-Type" -> "CONTENT-TYPE"
       [] str[i] = "application/json" -> "APPLICATION/JSON"
       [] str[i] = "--request" -> "--REQUEST"
       [] str[i] = "--header" -> "--HEADER"
       [] str[i] = "--data" -> "--DATA"
       [] str[i] = "-d" -> "-D"
       [] str[i] = "-v" -> "-V"
       [] OTHER -> str[i]]

\* str.split(sep) for a one-character separator: every occurrence cuts
RECURSIVE SplitOn(_, _, _, _, _)
SplitOn(str, sep, i, cur, out) ==
  IF i > Len(str) THEN Append(out, cur)
  ELSE IF str[i] = sep
    THEN SplitOn(str, sep, i + 1, << >>, Append(out, cur))
    ELSE SplitOn(str, sep, i + 1, Append(cur, str[i]), out)

\* str.split(/\s+/): a run of blanks cuts once; a leading or trailing run
\* leaves an empty first or last part
RECURSIVE SplitBlanks(_, _, _, _)
SplitBlanks(str, i, cur, out) ==
  IF i > Len(str) THEN Append(out, cur)
  ELSE IF str[i] = Blank
    THEN IF i > 1 /\ str[i - 1] = Blank
           THEN SplitBlanks(str, i + 1, cur, out)
           ELSE SplitBlanks(str, i + 1, << >>, Append(out, cur))
    ELSE SplitBlanks(str, i + 1, Append(cur, str[i]), out)

\* list.join(sep)
RECURSIVE Join(_, _)
Join(list, sep) ==
  IF list = << >> THEN << >>
  ELSE IF Len(list) = 1 THEN list[1]
  ELSE list[1] \o <<sep>> \o Join(Tail(list), sep)

\* str.trim()
RECURSIVE trim(_)
trim(str) ==
  IF str = << >> THEN str
  ELSE IF str[1] = Blank THEN trim(Tail(str))
  ELSE IF str[Len(str)] = Blank THEN trim(SubSeq(str, 1, Len(str) - 1))
  ELSE str

\* str.replace(/['"]/g, ''): every quote character goes
StripQuotes(str) == SelectSeq(str, LAMBDA ch : ch \notin Quotes)

\* str.replace(/^['"]|['"]$/g, ''): a quote at the start and a quote at
\* the end go, whether or not they match
StripEnds(str) ==
  IF str = << >> THEN str
  ELSE LET from == IF str[1] \in Quotes THEN 2 ELSE 1
           to == IF Len(str) >= 2 /\ str[Len(str)] \in Quotes
                   THEN Len(str) - 1 ELSE Len(str)
       IN  SubSeq(str, from, to)

\* part.startsWith('-')
startsWithDash(str) == str # << >> /\ str[1] \in Dashed

\* JSON values: a number, a string, an object of members, or no value
JsonValue(kind, text, members) ==
  [kind |-> kind, text |-> text, members |-> members]

undefined == JsonValue("undefined", << >>, << >>)

SyntaxError == JsonValue("SyntaxError", << >>, << >>)

Digits == {"1"}

\* the position of the first `"` of str after position i, 0 if there is none
RECURSIVE ClosingQuote(_, _)
ClosingQuote(str, i) ==
  IF i >= Len(str) THEN 0
  ELSE IF str[i + 1] = "\"" THEN i + 1
  ELSE ClosingQuote(str, i + 1)

\* JSON.parse(str) on text without blanks, commas or escapes: digits are a
\* number, "..." is a string, {} and {"key":value} are objects; anything
\* else throws SyntaxError
RECURSIVE JSONparse(_)
JSONparse(str) ==
  IF str = << >> THEN SyntaxError
  ELSE IF \A i \in DOMAIN str : str[i] \in Digits
    THEN JsonValue("number", str, << >>)
  ELSE IF str[1] = "\""
    THEN IF ClosingQuote(str, 1) = Len(str)
           THEN JsonValue("string", SubSeq(str, 2, Len(str) - 1), << >>)
           ELSE SyntaxError
  ELSE IF str[1] = "{" /\ str[Len(str)] = "}" /\ Len(str) >= 2
    THEN LET inner == SubSeq(str, 2, Len(str) - 1)
             q == ClosingQuote(inner, 1)
         IN  IF inner = << >> THEN JsonValue("object", << >>, << >>)
             ELSE IF inner[1] = "\"" /\ q > 0 /\ q < Len(inner)
                     /\ inner[q + 1] = Colon
               THEN LET val == JSONparse(SubSeq(inner, q + 2, Len(inner)))
                    IN  IF val = SyntaxError THEN SyntaxError
                        ELSE JsonValue("object", << >>,
                                       (SubSeq(inner, 2, q - 1) :> val))
               ELSE SyntaxError
  ELSE SyntaxError

GET == <<"GET">>

\* parts[++i]: the part after the flag; past the end it is undefined, which
\* every use treats as it treats the empty string (both are falsy)
Arg(parts, i) == IF i + 1 <= Len(parts) THEN parts[i + 1] ELSE << >>

\* a faulty method branch: the token is taken as it is written
methodBranch_AsWritten(arg) == IF arg = << >> THEN GET ELSE arg

\* method = parts[++i]?.toUpperCase() || 'GET'
methodBranch(arg) == IF toUpperCase(arg) = << >> THEN GET ELSE toUpperCase(arg)

\* a faulty header branch: a key that is already there keeps its value
headerBranch_FirstWins(headers, arg) ==
  LET header == StripQuotes(arg)
      pieces == SplitOn(header, Colon, 1, << >>, << >>)
      key == pieces[1]
      valueParts == Tail(pieces)
  IN  IF header # << >> /\ key # << >> /\ Len(valueParts) > 0
        THEN headers @@ (trim(key) :> trim(Join(valueParts, Colon)))
        ELSE headers

\* the -H branch: strip quotes, split at ':', insert trimmed key and value
headerBranch(headers, arg) ==
  LET header == StripQuotes(arg)
      pieces == SplitOn(header, Colon, 1, << >>, << >>)
      key == pieces[1]
      valueParts == Tail(pieces)
  IN  IF header # << >> /\ key # << >> /\ Len(valueParts) > 0
        THEN (trim(key) :> trim(Join(valueParts, Colon))) @@ headers
        ELSE headers

\* the -d branch: strip the ends, JSON.parse, keep the raw string on failure
dataBranch(body, arg) ==
  LET data == StripEnds(arg) IN
    IF data = << >> THEN body
    ELSE IF JSONparse(data) # SyntaxError THEN JSONparse(data)
    ELSE JsonValue("string", data, << >>)

\* a faulty last branch: a part that begins with '-' is taken as well
urlBranch_AnyPart(url, part) == IF url = << >> THEN StripQuotes(part) ELSE url

\* the last branch: !part.startsWith('-') && !url
urlBranch(url, part) ==
  IF ~startsWithDash(part) /\ url = << >> THEN StripQuotes(part) ELSE url

\* the locals before the walk
Locals == [url |-> << >>, method |-> GET, headers |-> << >>, body |-> undefined]

\* for (let i = 0; i < parts.length; i++) { ... }
RECURSIVE Walk(_, _, _)
Walk(parts, i, d) ==
  IF i > Len(parts) THEN d
  ELSE LET part == parts[i] IN
    IF part = <<"curl">> THEN Walk(parts, i + 1, d)
    ELSE IF part \in {<<"-X">>, <<"--request">>}
      THEN Walk(parts, i + 2, [d EXCEPT !.method = methodBranch(Arg(parts, i))])
    ELSE IF part \in {<<"-H">>, <<"--header">>}
      THEN Walk(parts, i + 2,
                [d EXCEPT !.headers = headerBranch(@, Arg(parts, i))])
    ELSE IF part \in {<<"-d">>, <<"--data">>}
      THEN Walk(parts, i + 2, [d EXCEPT !.body = dataBranch(@, Arg(parts, i))])
    ELSE Walk(parts, i + 1, [d EXCEPT !.url = urlBranch(@, part)])

\* if (!url) throw new Error('No URL found in CURL command')
NoUrlError ==
  [ok |-> FALSE, error |-> "No URL found in CURL command", url |-> << >>,
   method |-> << >>, headers |-> << >>, body |-> undefined]

parseCurlCommand(curlCommand) ==
  LET d == Walk(SplitBlanks(curlCommand, 1, << >>, << >>), 1, Locals) IN
    IF d.url = << >> THEN NoUrlError
    ELSE [ok |-> TRUE, error |-> "", url |-> d.url, method |-> d.method,
          headers |-> d.headers, body |-> d.body]

\* ------------------------------------------------------------------ state
VARIABLES
  variant,         \* which source file is the running program
  sessions,        \* the registry: identifier -> transport
  transports,      \* every transport constructed so far
  nextId,          \* randomUUID(): the next fresh identifier
  nextTr,          \* the next transport to be constructed
  call,            \* the calls in flight, one per slot
  regLog,          \* history: every <<identifier, transport>> ever registered
  removed,         \* history: identifiers removed from the registry
  deleteReturned,  \* history: registered identifiers whose DELETE has returned
  curl             \* a call of parseCurlCommand: its argument and its outcome

vars ==
  <<variant, sessions, transports, nextId, nextTr, call, regLog, removed,
    deleteReturned, curl>>

\* history: what the transport has written on a sink; at first nothing
Written == [statusCode |-> 200, headers |-> NoSinkHeaders]

\* what the history holds after setHeader(k, val)
WrittenHeader(w, k, val) == [w EXCEPT !.headers = [@ EXCEPT ![k] = val]]

\* what the history holds after writeHead(status, h)
WrittenHead(w, status, h) ==
  [w EXCEPT !.statusCode = status, !.headers = Assign(@, h)]

\* the body of GET /health; index.ts reports no activeSessions
NoHealth ==
  [sessions |-> 0, listed |-> FALSE, activeSessions |-> {},
   before |-> {}, after |-> {}]

\* pc: free -> (connecting ->) handling -> (settled ->) done -> free
\*   connecting  suspended on `await server.connect(transport)`
\*   handling    handleRequest was called, the handler's promise is pending
\*   settled     the handler's promise has settled, the framework has not
\*               yet read the context (part_002)
\*   done        the client has its response
Idle ==
  [pc |-> "free", method |-> "", sid |-> NoSession, init |-> FALSE,
   tr |-> NoTransport, hr |-> "none", hooked |-> FALSE, res |-> NewSink,
   set |-> ContextSet("index"), promise |-> "none", value |-> NoResponse,
   resp |-> NoResponse,
   \* history of the call: was the identifier registered at entry, had a
   \* DELETE of it returned at entry, calls of end(), the sink and the body
   \* at the first call of end()
   \* and whether the handler's promise was pending then; the status and
   \* the headers the transport wrote before its first call of end()
   known |-> FALSE, afterDelete |-> FALSE, ends |-> 0, first |-> NewSink,
   firstPending |-> FALSE, want |-> Written,
   \* what GET /health reported, and the identifiers registered when the
   \* handler ran and when it returned
   health |-> NoHealth,
   \* history: had the identifier been removed from the registry at entry
   gone |-> FALSE,
   \* history: the rank of the call among the calls in the slots by entry
   \* into its handler and by the call of handleRequest (0: not yet)
   enteredAt |-> 0, drivenAt |-> 0]

\* ------------------------------------- makeHttpRequest and the two tools
\* fetch rejects: a network failure or an invalid URL (TypeError), or the
\* AbortSignal.timeout firing (TimeoutError)
Rejections == {"TypeError", "TimeoutError"}

\* fetch fulfils with a response: its status, whether its content type
\* includes application/json, whether its body parses as JSON and, if it
\* does not, whether the runtime lets the body be read again as text
Responses ==
  [status : {200, 404}, json : BOOLEAN, valid : BOOLEAN, reread : BOOLEAN]

NotFetched == "none"

\* the value makeHttpRequest returns
NotMade == [error |-> FALSE, message |-> "", status |-> 0]

ErrorResult(message) == [error |-> TRUE, message |-> message, status |-> 0]

OkResult(r) == [error |-> FALSE, message |-> "", status |-> r.status]

\* makeHttpRequest after fetch fulfilled: response.json() throwing is caught
\* and response.text() is tried; if that throws too, the outer catch
\* returns the error object
OnResponse(r) ==
  IF r.json /\ ~r.valid /\ ~r.reread THEN ErrorResult("TypeError")
                                     ELSE OkResult(r)

\* makeHttpRequest's catch: the failure becomes the returned value
OnFetchError(e) == ErrorResult(e)

\* what a tool handler hands back: a result value, or a thrown exception
NoAnswer == [thrown |-> FALSE, isError |-> FALSE, text |-> "", message |-> ""]

ErrorAnswer(text, message) ==
  [thrown |-> FALSE, isError |-> TRUE, text |-> text, message |-> message]

OkAnswer == [NoAnswer EXCEPT !.text = "result"]

Propagated(message) == [NoAnswer EXCEPT !.thrown = TRUE, !.message = message]

\* if ('error' in result) return { ..., isError: true } else the report
Report(tool, result) ==
  IF result.error
    THEN ErrorAnswer(IF tool = "curl_request" THEN "CURL Request Failed"
                                              ELSE "HTTP Request Failed",
                     result.message)
    ELSE OkAnswer

\* a faulty handler without its try/catch: the parser's error goes on
CurlCatch_Propagates(message) == Propagated(message)

\* curl_request: catch (error) { return { ..., isError: true } }
CurlCatch(message) == ErrorAnswer("Failed to parse CURL command", message)

\* no call of parseCurlCommand is under way
NoCurl ==
  [pc |-> "idle", curlCommand |-> << >>, result |-> NoUrlError,
   \* the tool whose handler runs, the calls of fetch it has made, how the
   \* fetch settled, what makeHttpRequest returned, what the handler returned
   tool |-> "", fetches |-> 0, fetched |-> NotFetched, made |-> NotMade,
   answer |-> NoAnswer]

Init ==
  /\ curl = NoCurl
  /\ variant \in Variants
  /\ sessions = << >>
  /\ transports = [t \in Trs |-> [state |-> "absent", sessionId |-> NoSession]]
  /\ nextId = 1
  /\ nextTr = 1
  /\ call = [s \in Slots |-> Idle]
  /\ regLog = {}
  /\ removed = {}
  /\ deleteReturned = {}

\* `sessions[sessionId]` is truthy
Registered(sid) == sid \in DOMAIN sessions

\* a faulty registration: every identifier is made to name the transport
Register_All(reg, id, t) == [i \in Ids |-> t]

\* sessions[id] = { transport }
Register(reg, id, t) ==
  [i \in DOMAIN reg \cup {id} |-> IF i = id THEN t ELSE reg[i]]

\* delete sessions[id]
Unregister(reg, id) == [i \in DOMAIN reg \ {id} |-> reg[i]]

\* the history of the registry follows its changes
RegistryHistory ==
  /\ regLog' = regLog \cup
       {<<i, sessions'[i]>> : i \in
          {j \in DOMAIN sessions' : j \notin DOMAIN sessions
                                      \/ sessions[j] # sessions'[j]}}
  /\ removed' = removed \cup (DOMAIN sessions \ DOMAIN sessions')

\* the history of the DELETE calls follows the responses
DeleteHistory ==
  deleteReturned' = deleteReturned \cup
    {call'[s].sid : s \in
       {x \in Slots : /\ call[x].pc # "done" /\ call'[x].pc = "done"
                      /\ call'[x].method = "DELETE" /\ call'[x].known}}

\* a call enters its handler in the lowest free slot
FreeSlot(s) ==
  /\ call[s].pc = "free"
  /\ \A s2 \in Slots : s2 < s => call[s2].pc # "free"

Enter(m, sid, init) ==
  [Idle EXCEPT !.method = m, !.sid = sid, !.init = init,
               !.set = ContextSet(variant),
               !.known = Registered(sid),
               !.afterDelete = sid \in deleteReturned,
               !.gone = sid \in removed,
               !.enteredAt = Cardinality({x \in Slots : call[x].pc # "free"}) + 1]

\* the framework answers the client from the settled promise
Deliver(c) ==
  [c EXCEPT !.pc = "done",
            !.resp = IF c.promise = "rejected"
                       THEN Escaped
                       ELSE FrameworkResponse(variant, c.value, c.set)]

\* The handler's promise settles.  The framework reads it one reaction
\* later; only the sink of part_002 writes the context after the promise
\* settled, so only there is the state in between kept.
Settle(c, p, value, set) ==
  LET c1 == [c EXCEPT !.promise = p, !.value = value, !.set = set]
  IN  IF variant = "part_002" /\ c.hr # "none"
        THEN [c1 EXCEPT !.pc = "settled"]
        ELSE Deliver(c1)

\* the handler returns `value` with the Elysia context left as `set`
Returned(c, value, set) == Settle(c, "resolved", value, set)

\* the handler's promise rejects
Rejected(c) == Settle(c, "rejected", c.value, c.set)

\* transport.handleRequest(req, res, ...) is called with a fresh sink.
\* part_002 installs its resolving `end` only after that call has returned.
Drive(c, t) ==
  [c EXCEPT !.pc = "handling", !.tr = t, !.hr = "running", !.res = NewSink,
            !.promise = "pending", !.hooked = (variant # "part_002"),
            !.drivenAt = Cardinality({x \in Slots : call[x].drivenAt # 0}) + 1]

\* a faulty handler that suspends between the lookup and handleRequest
Dispatch_Awaits(c, t) == [c EXCEPT !.pc = "connecting", !.tr = t]

\* A call that found its transport in the registry goes from the lookup to
\* handleRequest in one run of the handler: no await lies between them.
Dispatch(c, t) == Drive(c, t)

\* ------------------------------------------------------------ POST /mcp
\* a faulty classification: the payload is not inspected, every POST
\* without identifier constructs a transport
Classify_IgnoresPayload(sid, init) ==
  IF sid # NoSession /\ Registered(sid) THEN "reuse"
  ELSE IF sid = NoSession THEN "create"
  ELSE "reject"

\* a faulty classification that tests the payload first: an initialize
\* request constructs a transport even when it names a registered session
Classify_InitFirst(sid, init) ==
  IF init THEN "create"
  ELSE IF sid # NoSession /\ Registered(sid) THEN "reuse"
  ELSE "reject"

\* a faulty classification that serves one call per session at a time: a
\* POST naming a session that has a call in flight is turned away
Classify_Exclusive(sid, init) ==
  IF sid # NoSession /\ Registered(sid)
       /\ \A x \in Slots : ~(call[x].pc = "handling" /\ call[x].sid = sid)
    THEN "reuse"
  ELSE IF sid = NoSession /\ init THEN "create"
  ELSE "reject"

\* the three branches of the classification
Classify(sid, init) ==
  IF sid # NoSession /\ Registered(sid) THEN "reuse"
  ELSE IF sid = NoSession /\ init THEN "create"
  ELSE "reject"

\* reuse the registered transport
PostReuse(s, sid, init) ==
  /\ FreeSlot(s)
  /\ Classify(sid, init) = "reuse"
  /\ call' = [call EXCEPT ![s] =
                Dispatch(Enter("POST", sid, init), sessions[sid])]
  /\ UNCHANGED <<curl, variant, sessions, transports, nextId, nextTr, regLog,
                 removed, deleteReturned>>

\* a faulty construction: the transport is registered at once, under an
\* identifier of its own making
Constructed_Registers(reg, t) == Register(reg, t, t)

\* new StreamableHTTPServerTransport({...}) and transport.onclose = ...:
\* the callbacks are only stored, the registry is as it was
Constructed(reg, t) == reg

\* construct a transport, set its callbacks and suspend on server.connect
PostCreate(s, sid, init) ==
  /\ FreeSlot(s)
  /\ Classify(sid, init) = "create"
  /\ nextTr <= MaxSessions
  /\ transports' = [transports EXCEPT ![nextTr].state = "open"]
  /\ sessions' = Constructed(sessions, nextTr)
  /\ nextTr' = nextTr + 1
  /\ call' = [call EXCEPT ![s] =
                [Enter("POST", sid, init) EXCEPT !.pc = "connecting",
                                                 !.tr = nextTr]]
  /\ RegistryHistory
  /\ UNCHANGED <<curl, variant, nextId, deleteReturned>>

\* the fixed 400 envelope
PostReject(s, sid, init) ==
  /\ FreeSlot(s)
  /\ Classify(sid, init) = "reject"
  /\ LET c == Enter("POST", sid, init) IN
       call' = [call EXCEPT ![s] =
                  Returned(c, BadRequestValue(variant),
                           BadRequestSet(variant, c.set))]
  /\ UNCHANGED <<curl, variant, sessions, transports, nextId, nextTr, regLog,
                 removed, deleteReturned>>

PostMcp(s, sid, init) ==
  \/ PostReuse(s, sid, init)
  \/ PostCreate(s, sid, init)
  \/ PostReject(s, sid, init)

\* await server.connect(transport) resumes: handleRequest is called
ConnectOk(s) ==
  /\ call[s].pc = "connecting"
  /\ call' = [call EXCEPT ![s] = Drive(@, @.tr)]
  /\ UNCHANGED <<curl, variant, sessions, transports, nextId, nextTr, regLog,
                 removed, deleteReturned>>

\* await server.connect(transport) throws: the catch block answers 500
ConnectFail(s) ==
  /\ call[s].pc = "connecting"
  /\ call' = [call EXCEPT ![s] =
                Returned(@, InternalErrorValue(variant),
                         InternalErrorSet(variant, @.set))]
  /\ UNCHANGED <<curl, variant, sessions, transports, nextId, nextTr, regLog,
                 removed, deleteReturned>>

\* ------------------------------------------------------------- GET /mcp
\* a faulty guard: only the presence of the header is tested
GetRejects_HeaderOnly(sid) == sid = NoSession

\* if (!sessionId || !sessions[sessionId]) return 400
GetRejects(sid) == sid = NoSession \/ ~Registered(sid)

GetMcp(s, sid) ==
  /\ FreeSlot(s)
  /\ LET c == Enter("GET", sid, FALSE) IN
       call' = [call EXCEPT ![s] =
                  IF GetRejects(sid)
                    THEN Returned(c, InvalidSessionValue(variant),
                                  InvalidSessionSet(variant, c.set))
                    ELSE IF ~Registered(sid)
                      \* sessions[sessionId] is undefined: reading its
                      \* transport throws out of the async handler
                      THEN Rejected(c)
                    ELSE Dispatch(c, sessions[sid])]
  /\ UNCHANGED <<curl, variant, sessions, transports, nextId, nextTr, regLog,
                 removed, deleteReturned>>

\* --------------------------------------------------------- OPTIONS /mcp
\* index.ts, part_001: new Response('', { status: 200, headers: corsHeaders })
OptionsValue(v) ==
  [status |-> 200, body |-> "empty",
   hdrs |-> IF v \in ResponseVariants THEN corsHeaders(v) ELSE NoHeaders]

\* part_000, part_002: the three headers are written on the context again
OptionsSet(v, set) ==
  IF v \in ResponseVariants
    THEN set
    ELSE [status |-> 200,
          headers |-> [set.headers EXCEPT !.acao = corsHeaders(v).acao,
                                          !.acam = corsHeaders(v).acam,
                                          !.acah = corsHeaders(v).acah]]

OptionsMcp(s) ==
  /\ FreeSlot(s)
  /\ LET c == Enter("OPTIONS", NoSession, FALSE) IN
       call' = [call EXCEPT ![s] =
                  Returned(c, OptionsValue(variant), OptionsSet(variant, c.set))]
  /\ UNCHANGED <<curl, variant, sessions, transports, nextId, nextTr, regLog,
                 removed, deleteReturned>>

\* ---------------------------------------------------------- GET /health
\* Object.keys(sessions)
Keys(reg) == DOMAIN reg

\* { status, sessions: Object.keys(sessions).length, activeSessions: ... }
HealthBody(v, reg) ==
  [NoHealth EXCEPT !.sessions = Cardinality(Keys(reg)),
                   !.listed = (v # "index"),
                   !.activeSessions = IF v = "index" THEN {} ELSE Keys(reg)]

\* index.ts, part_001: a Response with the JSON content type and corsHeaders
HealthValue(v) ==
  [status |-> 200, body |-> "health",
   hdrs |-> IF v \in ResponseVariants
              THEN [corsHeaders(v) EXCEPT !.ctype = "application/json"]
              ELSE NoHeaders]

Health(s) ==
  /\ FreeSlot(s)
  /\ UNCHANGED sessions
  /\ LET c == [Enter("GET /health", NoSession, FALSE) EXCEPT
                 !.health = [HealthBody(variant, sessions) EXCEPT
                               !.before = Keys(sessions),
                               !.after = Keys(sessions')]]
     IN  call' = [call EXCEPT ![s] = Returned(c, HealthValue(variant), c.set)]
  /\ UNCHANGED <<curl, variant, transports, nextId, nextTr, regLog, removed,
                 deleteReturned>>

\* ---------------------------------------------------------- DELETE /mcp
\* index.ts, part_001: remove the entry if present, acknowledge with 200.
\* part_000: 400 if missing/unknown, else remove the entry and forward the
\*           DELETE to transport.handleRequest.
\* part_002: 400 if missing/unknown, else forward without removing.
DeleteRemoves(v) == v \in {"index", "part_000", "part_001"}

DeleteForwards(v) == v \in {"part_000", "part_002"}

DeleteMcp(s, sid) ==
  /\ FreeSlot(s)
  /\ LET c == Enter("DELETE", sid, FALSE)
         hit == sid # NoSession /\ Registered(sid)
     IN  /\ call' = [call EXCEPT ![s] =
                       IF DeleteForwards(variant)
                         THEN IF hit
                                THEN Dispatch(c, sessions[sid])
                                ELSE Returned(c, InvalidSessionValue(variant),
                                              InvalidSessionSet(variant, c.set))
                         ELSE Returned(c, DeleteAckValue(variant), c.set)]
         /\ sessions' = IF hit /\ DeleteRemoves(variant)
                          THEN Unregister(sessions, sid) ELSE sessions
  /\ RegistryHistory
  /\ DeleteHistory
  /\ UNCHANGED <<curl, variant, transports, nextId, nextTr>>

\* ------------------------------------------- the transport (environment)
\* the transport was handed the sink of call s and may still call it
Active(s) ==
  /\ call[s].pc \in {"handling", "settled", "done"}
  /\ call[s].hr # "none"

\* transport.sessionId of the transport serving call c
OwnId(c) ==
  IF c.tr = NoTransport THEN NoSession ELSE transports[c.tr].sessionId

\* a faulty generator: it hands out the identifier it generated last
sessionIdGenerator_Repeats == IF nextId > 1 THEN nextId - 1 ELSE nextId

\* sessionIdGenerator: () => randomUUID()
sessionIdGenerator == nextId

\* a faulty callback: the transport is not stored in the registry
onsessioninitialized_Forgets(id, t) == sessions

\* onsessioninitialized: (id) => { sessions[id] = { transport } }
onsessioninitialized(id, t) == Register(sessions, id, t)

\* transport.onclose: if (transport.sessionId) delete sessions[...]
onclose(t) ==
  IF transports[t].sessionId # NoSession
    THEN Unregister(sessions, transports[t].sessionId)
    ELSE sessions

\* The transport handles an initialize request: it generates its identifier
\* and fires the initialization callback (once per transport).
TInit(s) ==
  /\ Active(s)
  /\ call[s].hr = "running"
  /\ call[s].method = "POST" /\ call[s].init
  /\ OwnId(call[s]) = NoSession
  /\ nextId <= MaxSessions
  /\ LET id == sessionIdGenerator
         t == call[s].tr
     IN  /\ transports' = [transports EXCEPT ![t].sessionId = id]
         /\ sessions' = onsessioninitialized(id, t)
  /\ nextId' = nextId + 1
  /\ RegistryHistory
  /\ UNCHANGED <<curl, variant, nextTr, call, deleteReturned>>

\* The transport reports closure.
TClose(t) ==
  /\ transports[t].state = "open"
  /\ transports' = [transports EXCEPT ![t].state = "closed"]
  /\ sessions' = onclose(t)
  /\ RegistryHistory
  /\ UNCHANGED <<curl, variant, nextId, nextTr, call, deleteReturned>>

\* res.setHeader(k, val); the only identifier a transport writes is its own
TSetHeader(s, k, val) ==
  /\ Active(s)
  /\ k = "sid" => val # NoSession /\ val = OwnId(call[s])
  /\ call' = [call EXCEPT
                ![s].res = setHeader(@, k, val),
                ![s].want = IF call[s].ends = 0
                              THEN WrittenHeader(@, k, val) ELSE @]
  /\ UNCHANGED <<curl, variant, sessions, transports, nextId, nextTr, regLog,
                 removed, deleteReturned>>

\* res.writeHead(status, h)
TWriteHead(s, status, h) ==
  /\ Active(s)
  /\ h.sid # NoSession => h.sid = OwnId(call[s])
  /\ call' = [call EXCEPT
                ![s].res = writeHead(variant, @, status, h),
                ![s].want = IF call[s].ends = 0
                              THEN WrittenHead(@, status, h) ELSE @]
  /\ UNCHANGED <<curl, variant, sessions, transports, nextId, nextTr, regLog,
                 removed, deleteReturned>>

\* whether end() settles the promise the handler returned
EndResolves(v, c) ==
  /\ c.promise = "pending"
  /\ \/ v \in ResponseVariants
     \/ v = "part_002" /\ c.hooked

\* the value end(data) resolves the promise with
EndValue(v, c, data) ==
  IF v \in ResponseVariants
    THEN SinkResponse(v, c.method, c.res, data)
    ELSE [NoResponse EXCEPT !.body = BodyOrUndefined(data)]

\* part_002: originalEnd copies the sink into the context at every call
EndSet(v, c) == IF v = "part_002" THEN relaySet(c.set, c.res) ELSE c.set

\* res.end(data)
TEnd(s, data) ==
  /\ Active(s)
  /\ call[s].ends < MaxEnds
  /\ LET c == call[s]
         c1 == [c EXCEPT
                  !.res = endStore(variant, @, data),
                  !.ends = @ + 1,
                  !.first = IF c.ends = 0 THEN [c.res EXCEPT !.data = data] ELSE @,
                  !.firstPending = IF c.ends = 0 THEN c.promise = "pending" ELSE @]
     IN  call' = [call EXCEPT ![s] =
                    IF EndResolves(variant, c)
                      THEN Returned(c1, EndValue(variant, c, data),
                                    EndSet(variant, c))
                      ELSE [c1 EXCEPT !.set = EndSet(variant, c)]]
  /\ DeleteHistory
  /\ UNCHANGED <<curl, variant, sessions, transports, nextId, nextTr, regLog, removed>>

\* part_002: the executor goes on after handleRequest(...) returned its
\* promise and replaces res.end by the resolving wrapper
THook(s) ==
  /\ call[s].pc = "handling"
  /\ ~call[s].hooked
  /\ call' = [call EXCEPT ![s].hooked = TRUE]
  /\ UNCHANGED <<curl, variant, sessions, transports, nextId, nextTr, regLog,
                 removed, deleteReturned>>

\* the reaction of the handler to handleRequest's promise being fulfilled
OnFulfilled(v, c) ==
  CASE v = "part_000" ->
         Returned(c, [NoResponse EXCEPT !.body = BodyOrUndefined(c.res.data)],
                  relaySet(c.set, c.res))
    [] v = "part_002" /\ c.promise = "pending" ->
         Returned(c, [NoResponse EXCEPT !.body = "undefined"], c.set)
    [] OTHER -> c

\* the reaction of the handler to handleRequest's promise being rejected
OnRejected(v, c) ==
  CASE v = "part_001" /\ c.promise = "pending" ->
         Returned(c, IF c.method = "POST" THEN InternalErrorValue(v)
                                          ELSE GetErrorValue(v), c.set)
    [] v = "part_000" /\ c.method = "POST" ->
         Returned(c, InternalErrorValue(v), InternalErrorSet(v, c.set))
    [] v = "part_000" /\ c.method # "POST" -> Rejected(c)
    [] v = "part_002" /\ c.promise = "pending" -> Rejected(c)
    [] OTHER -> c

\* handleRequest's promise is fulfilled
TResolve(s) ==
  /\ Active(s)
  /\ call[s].hr = "running" /\ call[s].hooked
  /\ call' = [call EXCEPT ![s] = OnFulfilled(variant, [@ EXCEPT !.hr = "resolved"])]
  /\ DeleteHistory
  /\ UNCHANGED <<curl, variant, sessions, transports, nextId, nextTr, regLog, removed>>

\* handleRequest's promise is rejected
TReject(s) ==
  /\ Active(s)
  /\ call[s].hr = "running" /\ call[s].hooked
  /\ call' = [call EXCEPT ![s] = OnRejected(variant, [@ EXCEPT !.hr = "rejected"])]
  /\ DeleteHistory
  /\ UNCHANGED <<curl, variant, sessions, transports, nextId, nextTr, regLog, removed>>

\* ------------------------------------------------- the serving framework
\* part_002: the framework reads the context and answers the client
Return(s) ==
  /\ call[s].pc = "settled"
  /\ call' = [call EXCEPT ![s] = Deliver(@)]
  /\ DeleteHistory
  /\ UNCHANGED <<curl, variant, sessions, transports, nextId, nextTr, regLog, removed>>

\* the exchange is over; the slot serves the next call
Release(s) ==
  /\ call[s].pc = "done"
  /\ call' = [call EXCEPT ![s] = Idle]
  /\ UNCHANGED <<curl, variant, sessions, transports, nextId, nextTr, regLog,
                 removed, deleteReturned>>

\* --------------------------------------------------------- specifications
\* the handler's promise of call s is still pending
Pending(s) == call[s].promise = "pending"

\* the way a transport announces its identifier: a header of the response
IdHeader(c) == [sid |-> OwnId(c), acao |-> ""]

\* the steps of a transport that answers with one body value, announces
\* nothing but its own identifier and leaves the sink alone once the
\* handler's promise has settled
AnnounceBySetHeader(s) == Pending(s) /\ TSetHeader(s, "sid", OwnId(call[s]))

AnnounceByWriteHead(s) == Pending(s) /\ TWriteHead(s, 200, IdHeader(call[s]))

Answer(s) == Pending(s) /\ TEnd(s, "d1")

Fulfil(s) == Pending(s) /\ TResolve(s)

Fail(s) == Pending(s) /\ TReject(s)

\* Spec: one call at a time, from the start of the server.
Next ==
  \/ \E s \in One, sid \in Ids \cup {NoSession}, init \in BOOLEAN :
       PostMcp(s, sid, init)
  \/ \E s \in One : ConnectOk(s)
  \/ \E s \in One : ConnectFail(s)
  \/ \E s \in One, sid \in Ids \cup {NoSession} : GetMcp(s, sid)
  \/ \E s \in One, sid \in Ids \cup {NoSession} : DeleteMcp(s, sid)
  \/ \E s \in One : OptionsMcp(s)
  \/ \E s \in One : Health(s)
  \/ \E s \in One : THook(s)
  \/ \E s \in One : Return(s)
  \/ \E s \in One : Release(s)
  \/ \E s \in One : TInit(s)
  \/ \E t \in Trs : TClose(t)
  \/ \E s \in One : AnnounceBySetHeader(s)
  \/ \E s \in One : AnnounceByWriteHead(s)
  \/ \E s \in One : Answer(s)
  \/ \E s \in One : Fulfil(s)
  \/ \E s \in One : Fail(s)

Spec == Init /\ [][Next]_vars

\* the handler's own continuations and the framework's answer are scheduled
\* by the event loop; nothing obliges the transport to take a step
FairSpec ==
  Spec /\ WF_vars(\E s \in One : Return(s)) /\ WF_vars(\E s \in One : THook(s))

\* SinkSpec: one call at a time on an established session (the state after
\* one initialize exchange).  The transport writes every status, header and
\* body value, before and after the handler's promise has settled.
InitSink ==
  /\ curl = NoCurl
  /\ variant \in Variants
  /\ sessions = (1 :> 1)
  /\ transports = [t \in Trs |->
                     IF t = 1 THEN [state |-> "open", sessionId |-> 1]
                              ELSE [state |-> "absent", sessionId |-> NoSession]]
  /\ nextId = 2
  /\ nextTr = 2
  /\ call = [s \in Slots |-> Idle]
  /\ regLog = {<<1, 1>>}
  /\ removed = {}
  /\ deleteReturned = {}

NextSink ==
  \/ \E s \in One : PostReuse(s, 1, FALSE)
  \/ \E s \in One : PostReject(s, 1, FALSE)
  \/ \E s \in One : GetMcp(s, 1)
  \/ \E s \in One : DeleteMcp(s, 1)
  \/ \E s \in One : OptionsMcp(s)
  \/ \E s \in One : THook(s)
  \/ \E s \in One : Return(s)
  \/ \E s \in One : Release(s)
  \/ \E s \in One, o \in OriginVals : TSetHeader(s, "acao", o)
  \/ \E s \in One, status \in StatusVals, o \in OriginVals \cup {""} :
       TWriteHead(s, status, [sid |-> NoSession, acao |-> o])
  \/ \E s \in One, data \in DataVals \cup {""} : TEnd(s, data)
  \/ \E s \in One : TResolve(s)
  \/ \E s \in One : TReject(s)

SinkSpec == InitSink /\ [][NextSink]_vars

\* PairSpec: two calls, in flight together in every interleaving, on a
\* fresh server or on an established session.
PairNext ==
  \/ \E s \in Slots, sid \in Ids \cup {NoSession}, init \in BOOLEAN :
       PostMcp(s, sid, init)
  \/ \E s \in Slots : ConnectOk(s)
  \/ \E s \in Slots : ConnectFail(s)
  \/ \E s \in Slots, sid \in Ids \cup {NoSession} : GetMcp(s, sid)
  \/ \E s \in Slots, sid \in Ids \cup {NoSession} : DeleteMcp(s, sid)
  \/ \E s \in Slots : THook(s)
  \/ \E s \in Slots : Return(s)
  \/ \E s \in Slots : TInit(s)
  \/ \E t \in Trs : TClose(t)
  \/ \E s \in Slots : Answer(s)
  \/ \E s \in Slots : Fulfil(s)
  \/ \E s \in Slots : Fail(s)

PairInit == Init \/ InitSink

PairSpec == PairInit /\ [][PairNext]_vars

\* CurlSpec: parseCurlCommand is applied to a command string.
MaxTokens == 4

MaxOther == 2

\* words of a command line
Words ==
  {<<"curl">>, <<"-X">>, <<"-H">>, <<"-d">>, <<"u">>, <<"post">>,
   <<"k", ":", "v">>, <<"k", ":", "w">>}

\* words with long flags, another flag, quotes, several colons, JSON text
OtherWords ==
  {<<"1">>, <<"--request">>, <<"--header">>, <<"--data">>, <<"-v">>,
   <<"'", "u", "'">>, <<"'", "'">>,
   <<"'", "k", ":", "v", "'">>, <<"k", ":", "a", ":", "w">>,
   <<"k", "'", ":", "v">>, <<":", "v">>,
   <<"'", "{", "\"", "a", "\"", ":", "1", "}", "'">>,
   <<"\"", "a", "\"">>, <<"'", "\"", "a", "\"", "'">>}

\* the sequences of at most n elements of S
SeqsUpTo(S, n) == UNION {[1..m -> S] : m \in 0..n}

\* curl -X POST https://example.test/x -H 'Content-Type: application/json'
\*   -d '{"a":1}'
FullCommand ==
  <<"curl", " ", "-X", " ", "POST", " ", "https", ":", "//example.test/x",
    " ", "-H", " ", "'", "Content-Type", ":", " ", "application/json", "'",
    " ", "-d", " ", "'", "{", "\"", "a", "\"", ":", "1", "}", "'">>

\* the command with every kind of flag, two header flags before a URL,
\* quoted JSON data with a blank in it, and commands with blanks before,
\* after and between the words
LongCommands ==
  {FullCommand,
   <<"curl", " ", "-H", " ", "k", ":", "v", " ", "-H", " ", "k", ":", "w",
     " ", "u">>,
   <<"-H", " ", "k", ":", "w", " ", "u", " ", "-H", " ", "k", ":", "v">>,
   <<"-H", " ", "k", ":", "w", " ", "-X", " ", "-H", " ", "k", ":", "v">>,
   <<"curl", " ", "u", " ", "-d", " ",
     "'", "{", "\"", "a", "\"", ":", " ", "1", "}", "'">>,
   <<" ", "curl", " ", "u">>,
   <<"curl", " ", "u", " ", "-X", " ">>,
   <<"curl", " ", " ", "-X", " ", " ", "post", " ", "u", " ">>}

\* at most MaxTokens plain words; at most MaxOther words of any kind and
\* a URL after them; the long commands
Commands ==
  {Join(ws, Blank) : ws \in SeqsUpTo(Words, MaxTokens)}
    \cup {Join(Append(ws, <<"u">>), Blank) :
            ws \in SeqsUpTo(Words \cup OtherWords, MaxOther)}
    \cup LongCommands

CurlInit ==
  /\ variant = "part_000"
  /\ sessions = << >>
  /\ transports = [t \in Trs |-> [state |-> "absent", sessionId |-> NoSession]]
  /\ nextId = 1
  /\ nextTr = 1
  /\ call = [s \in Slots |-> Idle]
  /\ regLog = {}
  /\ removed = {}
  /\ deleteReturned = {}
  /\ curl \in {[NoCurl EXCEPT !.pc = "called", !.curlCommand = c] :
                 c \in Commands}

\* const parsed = parseCurlCommand(curl_command)
CallParseCurlCommand ==
  /\ curl.pc = "called"
  /\ curl' = [curl EXCEPT !.pc = IF parseCurlCommand(curl.curlCommand).ok
                                   THEN "returned" ELSE "thrown",
                          !.result = parseCurlCommand(curl.curlCommand)]
  /\ UNCHANGED <<variant, sessions, transports, nextId, nextTr, call, regLog,
                 removed, deleteReturned>>

CurlNext == CallParseCurlCommand

CurlSpec == CurlInit /\ [][CurlNext]_vars

\* ToolSpec: one call of a tool handler, from its entry to what it hands
\* back.  index.ts registers http_request only.
ToolCommands ==
  LongCommands \cup {Join(ws, Blank) : ws \in SeqsUpTo(Words, 1)}

\* async ({ curl_command, timeout }) => { try { ...
CallCurlRequest(c) ==
  /\ variant # "index"
  /\ curl.pc = "idle"
  /\ curl' = [curl EXCEPT !.pc = "called", !.tool = "curl_request",
                          !.curlCommand = c]
  /\ UNCHANGED <<variant, sessions, transports, nextId, nextTr, call, regLog,
                 removed, deleteReturned>>

\* async ({ url, method, headers, body, timeout }) => {
CallHttpRequest ==
  /\ curl.pc = "idle"
  /\ curl' = [curl EXCEPT !.pc = "entered", !.tool = "http_request"]
  /\ UNCHANGED <<variant, sessions, transports, nextId, nextTr, call, regLog,
                 removed, deleteReturned>>

\* parseCurlCommand threw: the handler's catch block
CatchParse ==
  /\ curl.pc = "thrown" /\ curl.tool = "curl_request"
  /\ curl' = [curl EXCEPT !.pc = "answered",
                          !.answer = CurlCatch(curl.result.error)]
  /\ UNCHANGED <<variant, sessions, transports, nextId, nextTr, call, regLog,
                 removed, deleteReturned>>

\* await makeHttpRequest({...}) up to its `await fetch(url, requestInit)`
CallMakeHttpRequest ==
  /\ \/ curl.tool = "curl_request" /\ curl.pc = "returned"
     \/ curl.tool = "http_request" /\ curl.pc = "entered"
  /\ curl' = [curl EXCEPT !.pc = "fetching", !.fetches = @ + 1]
  /\ UNCHANGED <<variant, sessions, transports, nextId, nextTr, call, regLog,
                 removed, deleteReturned>>

\* fetch fulfils; makeHttpRequest reads the body and returns
FetchFulfils(r) ==
  /\ curl.pc = "fetching"
  /\ r.valid => r.reread
  /\ curl' = [curl EXCEPT !.pc = "made", !.fetched = "fulfilled",
                          !.made = OnResponse(r)]
  /\ UNCHANGED <<variant, sessions, transports, nextId, nextTr, call, regLog,
                 removed, deleteReturned>>

\* fetch rejects; makeHttpRequest's catch returns the error object
FetchRejects(e) ==
  /\ curl.pc = "fetching"
  /\ curl' = [curl EXCEPT !.pc = "made", !.fetched = e,
                          !.made = OnFetchError(e)]
  /\ UNCHANGED <<variant, sessions, transports, nextId, nextTr, call, regLog,
                 removed, deleteReturned>>

\* the handler goes on after `await makeHttpRequest` and returns
ToolReturns ==
  /\ curl.pc = "made"
  /\ curl' = [curl EXCEPT !.pc = "answered",
                          !.answer = Report(curl.tool, curl.made)]
  /\ UNCHANGED <<variant, sessions, transports, nextId, nextTr, call, regLog,
                 removed, deleteReturned>>

ToolNext ==
  \/ \E c \in ToolCommands : CallCurlRequest(c)
  \/ CallHttpRequest
  \/ CallParseCurlCommand
  \/ CatchParse
  \/ CallMakeHttpRequest
  \/ \E r \in Responses : FetchFulfils(r)
  \/ \E e \in Rejections : FetchRejects(e)
  \/ ToolReturns

ToolSpec == Init /\ [][ToolNext]_vars

\* ================================================================ claims
\* a call that has its response
Done(c) == c.pc = "done"

\* an initiation call: POST, no identifier header, initialize payload
Initiation(c) == c.method = "POST" /\ c.sid = NoSession /\ c.init

\* the identifier a response returns to the client
ReturnedId(c) == c.resp.hdrs.sid

\* the fixed JSON-RPC error envelope with the given code
Envelope(c, status, body) ==
  c.resp.status = status /\ c.resp.body = body

\* C1: an initiation call that returns an identifier has added exactly one
\* entry to the registry, under the identifier generated for the transport
\* it constructed, before its response was returned; the entry is in the
\* registry unless it was removed since, and every call dispatched under an
\* identifier is served by the transport registered under it.
C1_InitiationRegistersOnce ==
  /\ \A s \in Slots :
       LET c == call[s] IN
         Done(c) /\ Initiation(c) /\ ReturnedId(c) # NoSession =>
           /\ {p \in regLog : p[2] = c.tr} = {<<ReturnedId(c), c.tr>>}
           /\ {p \in regLog : p[1] = ReturnedId(c)} = {<<ReturnedId(c), c.tr>>}
           /\ transports[c.tr].sessionId = ReturnedId(c)
           /\ ReturnedId(c) \notin removed =>
                Registered(ReturnedId(c)) /\ sessions[ReturnedId(c)] = c.tr
  /\ \A s \in Slots :
       Initiation(call[s]) /\ call[s].tr # NoTransport =>
         {p \in regLog : p[2] = call[s].tr}
           \subseteq {<<OwnId(call[s]), call[s].tr>>}
  /\ \A s \in Slots :
       call[s].hr # "none" /\ call[s].sid # NoSession =>
         <<call[s].sid, call[s].tr>> \in regLog

\* C1 witness: an initiation call has returned the identifier under which
\* its transport is registered
C1_Witness ==
  \E s \in Slots :
    /\ Done(call[s]) /\ Initiation(call[s])
    /\ ReturnedId(call[s]) # NoSession
    /\ Registered(ReturnedId(call[s]))
    /\ call[s].resp.status = 200

\* C2: a GET that carries an identifier whose DELETE has returned answers 400.
C2_GetAfterDeleteIs400 ==
  \A s \in Slots :
    Done(call[s]) /\ call[s].method = "GET" /\ call[s].afterDelete =>
      call[s].resp.status = 400

\* C3: two initiation calls construct two transports, their transports get
\* two different identifiers, and each identifier, unless removed since,
\* maps to the transport of its own call.
C3_ConcurrentInitiationsDiffer ==
  \A s1, s2 \in Slots :
    LET c1 == call[s1]
        c2 == call[s2]
    IN  s1 # s2 /\ Initiation(c1) /\ Initiation(c2)
        /\ c1.tr # NoTransport /\ c2.tr # NoTransport =>
          /\ c1.tr # c2.tr
          /\ OwnId(c1) # NoSession /\ OwnId(c2) # NoSession =>
               OwnId(c1) # OwnId(c2)
          /\ OwnId(c1) # NoSession /\ OwnId(c1) \notin removed =>
               Registered(OwnId(c1)) /\ sessions[OwnId(c1)] = c1.tr

\* C3 witness: two initiation calls that were in flight together have both
\* been answered, and both transports are registered under their identifier
C3_Witness ==
  \A s \in Slots :
    /\ Initiation(call[s]) /\ Done(call[s]) /\ call[s].resp.status = 200
    /\ OwnId(call[s]) # NoSession
    /\ Registered(OwnId(call[s]))
    /\ sessions[OwnId(call[s])] = call[s].tr

\* C4: a POST whose identifier is not registered and whose payload is no
\* initialize request answers 400 with the -32000 envelope, and
\* handleRequest is never called for it.
C4_UnknownContinuationIs400 ==
  \A s \in Slots :
    LET c == call[s] IN
      c.method = "POST" /\ ~c.known /\ ~c.init =>
        /\ c.hr = "none" /\ c.tr = NoTransport
        /\ Done(c) => Envelope(c, 400, "rpc-32000")

\* C4 witness: such a POST, carrying an identifier, has been answered
C4_Witness ==
  \E s \in Slots :
    /\ Done(call[s]) /\ call[s].method = "POST"
    /\ ~call[s].known /\ ~call[s].init /\ call[s].sid # NoSession
    /\ call[s].resp.status = 400

\* the plain-text bodies of the rejected GET
PlainText == {"Invalid session", "Invalid or missing session ID"}

\* C5: a GET with a missing or unregistered identifier answers 400 with a
\* plain-text body and calls no handleRequest; a GET naming a registered
\* session is dispatched to the transport registered under that identifier.
C5_GetNeedsSession ==
  \A s \in Slots :
    LET c == call[s] IN
      c.method = "GET" =>
        /\ ~c.known =>
             /\ c.hr = "none"
             /\ Done(c) => /\ c.resp.status = 400
                           /\ c.resp.body \in PlainText
                           /\ c.resp.hdrs.ctype # "application/json"
        /\ c.known =>
             /\ c.hr # "none"
             /\ <<c.sid, c.tr>> \in regLog

\* C5 witness: a GET naming a registered session was dispatched to its
\* transport and answered
C5_Witness ==
  \E s \in Slots :
    /\ call[s].method = "GET" /\ call[s].known
    /\ Done(call[s]) /\ call[s].resp.status = 200
    /\ call[s].tr # NoTransport /\ OwnId(call[s]) = call[s].sid

\* C6: DELETE always answers 200 and leaves the named identifier out of
\* the registry.
C6_DeleteAlways200 ==
  \A s \in Slots :
    Done(call[s]) /\ call[s].method = "DELETE" =>
      /\ call[s].resp.status = 200
      /\ call[s].known => call[s].sid \in removed

\* C7: the DELETE handler itself removes a registered identifier before it
\* answers, and never calls handleRequest.
C7_DeleteNotForwarded ==
  \A s \in Slots :
    call[s].method = "DELETE" =>
      /\ call[s].hr = "none"
      /\ Done(call[s]) /\ call[s].known => call[s].sid \in removed

\* the call failed before completion: connect threw, or handleRequest
\* rejected before end() was called
FailedBeforeEnd(c) ==
  \/ c.method = "POST" /\ c.tr # NoTransport /\ c.hr = "none"
  \/ c.hr = "rejected" /\ c.ends = 0

\* C8: no handler's promise rejects, and a call that failed while being
\* classified, connected or driven answers 500 with the -32603 envelope.
C8_FailuresBecome500 ==
  \A s \in Slots :
    Done(call[s]) =>
      /\ call[s].resp # Escaped
      /\ FailedBeforeEnd(call[s]) => Envelope(call[s], 500, "rpc-32603")

\* C9: when handleRequest rejects before end() was called, the promise the
\* handler awaits is eventually settled.
C9_RejectionSettles ==
  \A s \in One :
    (call[s].hr = "rejected" /\ call[s].ends = 0)
      ~> (call[s].promise \in {"resolved", "rejected"})

\* the body a response carries for the data passed to end()
BodyFor(data) == IF data = "" THEN {"empty", "undefined"} ELSE {data}

\* C10: when end() was called while the handler's promise was pending, the
\* response has the status, the headers and the body of the sink at that
\* first call: no later end() and no later rejection changes them.
C10_FirstEndDecides ==
  \A s \in Slots :
    LET c == call[s] IN
      Done(c) /\ c.ends >= 1 /\ c.firstPending =>
        /\ c.resp.status = c.first.statusCode
        /\ c.resp.body \in BodyFor(c.first.data)
        /\ c.resp.hdrs = Assign(c.resp.hdrs, c.first.headers)

\* the call was dispatched to a transport and answered without an error
AnsweredByTransport(c) ==
  /\ Done(c) /\ c.hr # "none"
  /\ c.resp # Escaped /\ c.resp.status # 500

\* C11: a dispatched call is not answered before the transport has called
\* end() on its sink: whenever the response was produced without an error,
\* end() has been called.
C11_NoResponseBeforeEnd ==
  \A s \in Slots : AnsweredByTransport(call[s]) => call[s].ends >= 1

\* C12: when the transport completed a call by one end() and did not
\* reject, the response has the status of the last writeHead before that
\* end() (200 without one) and, for every header key written before it by
\* setHeader or by the header argument of writeHead, the last value written.
C12_LastWriteWins ==
  \A s \in Slots :
    LET c == call[s] IN
      Done(c) /\ c.ends = 1 /\ c.firstPending /\ c.hr # "rejected" =>
        /\ c.resp.status = c.want.statusCode
        /\ c.resp.hdrs = Assign(c.resp.hdrs, c.want.headers)

\* the fixed cross-origin headers; the allowed request headers include the
\* session identifier header
AllowHeaders ==
  {"Content-Type, mcp-session-id", "Content-Type, Authorization, mcp-session-id"}

CrossOrigin(h) ==
  /\ h.acao = "*"
  /\ h.acam = "GET, POST, PUT, DELETE, OPTIONS"
  /\ h.acah \in AllowHeaders

\* C13: every response a /mcp handler produces (OPTIONS, relay, 400, 500,
\* DELETE acknowledgment) carries the fixed cross-origin headers, whatever
\* headers the transport wrote.
C13_CrossOriginAlways ==
  \A s \in Slots :
    Done(call[s]) /\ call[s].resp # Escaped => CrossOrigin(call[s].resp.hdrs)

\* ----------------------------------------------- claims on parseCurlCommand
\* the parts of the command a call was made with, and what it returned
Parts == SplitBlanks(curl.curlCommand, 1, << >>, << >>)

Descriptor == curl.result

MethodFlags == {<<"-X">>, <<"--request">>}

HeaderFlags == {<<"-H">>, <<"--header">>}

DataFlags == {<<"-d">>, <<"--data">>}

\* the part after position i, if there is one and it is not empty
HasToken(parts, i) == i + 1 <= Len(parts) /\ parts[i + 1] # << >>

\* the positions read as a word of their own: the part after a method,
\* header or data flag is that flag's argument and is not read again
RECURSIVE FlagPositions(_, _)
FlagPositions(parts, i) ==
  IF i > Len(parts) THEN {}
  ELSE IF parts[i] \in MethodFlags \cup HeaderFlags \cup DataFlags
    THEN {i} \cup FlagPositions(parts, i + 2)
    ELSE {i} \cup FlagPositions(parts, i + 1)

Last(S) == CHOOSE i \in S : \A j \in S : j <= i

\* C14 as stated: when some part is a method flag followed by a token the
\* method returned is such a token upper-cased, and otherwise it is GET.
C14_MethodOfAnyFlag ==
  curl.pc = "returned" =>
    LET flagged == {i \in DOMAIN Parts :
                      Parts[i] \in MethodFlags /\ HasToken(Parts, i)}
    IN  IF flagged = {}
          THEN Descriptor.method = GET
          ELSE \E i \in flagged : Descriptor.method = toUpperCase(Parts[i + 1])

\* C14 amended: the last method flag that is not itself the argument of a
\* preceding flag decides: the method is the token after it, upper-cased,
\* or GET when no token follows; without such a flag the method is GET.
C14_MethodOfLastFlag ==
  curl.pc = "returned" =>
    LET flags == {i \in FlagPositions(Parts, 1) : Parts[i] \in MethodFlags}
    IN  IF flags = {}
          THEN Descriptor.method = GET
          ELSE Descriptor.method =
                 IF HasToken(Parts, Last(flags))
                   THEN toUpperCase(Parts[Last(flags) + 1])
                   ELSE GET

\* C14 witness: a descriptor whose method is the upper-cased token of a
\* method flag
C14_Witness ==
  /\ curl.pc = "returned"
  /\ Descriptor.method = <<"POST">>
  /\ \E i \in FlagPositions(Parts, 1) :
       Parts[i] \in MethodFlags /\ Parts[i + 1] = <<"post">>

\* the position of the first colon of str, 0 if it has none
RECURSIVE FirstColon(_, _)
FirstColon(str, i) ==
  IF i > Len(str) THEN 0
  ELSE IF str[i] = Colon THEN i
  ELSE FirstColon(str, i + 1)

\* key and value of a header token: the text before and after the first
\* colon of the token without its quote characters
KeyOf(tok) ==
  LET h == StripQuotes(tok) IN trim(SubSeq(h, 1, FirstColon(h, 1) - 1))

ValueOf(tok) ==
  LET h == StripQuotes(tok) IN trim(SubSeq(h, FirstColon(h, 1) + 1, Len(h)))

\* the part after position i is a header token with a key
Keyed(parts, i) ==
  /\ HasToken(parts, i)
  /\ FirstColon(StripQuotes(parts[i + 1]), 1) > 1

\* C15 as stated: of two header flags whose tokens have the same key the
\* later one gives the value the mapping holds for that key.
C15_LaterOfAnyTwo ==
  curl.pc = "returned" =>
    \A i, j \in DOMAIN Parts :
      /\ i < j /\ Parts[i] \in HeaderFlags /\ Parts[j] \in HeaderFlags
      /\ Keyed(Parts, i) /\ Keyed(Parts, j)
      /\ KeyOf(Parts[i + 1]) = KeyOf(Parts[j + 1])
      /\ \A m \in DOMAIN Parts :
           m > j /\ Parts[m] \in HeaderFlags /\ Keyed(Parts, m)
             => KeyOf(Parts[m + 1]) # KeyOf(Parts[j + 1])
      => /\ KeyOf(Parts[j + 1]) \in DOMAIN Descriptor.headers
         /\ Descriptor.headers[KeyOf(Parts[j + 1])] = ValueOf(Parts[j + 1])

\* the header flags that are not themselves the argument of a preceding
\* flag and whose token has a key
HeaderPositions ==
  {i \in FlagPositions(Parts, 1) : Parts[i] \in HeaderFlags /\ Keyed(Parts, i)}

\* C15 amended: among the header flags that are not themselves the argument
\* of a preceding flag, the last one with a given key gives the value the
\* mapping holds for that key.
C15_LaterOfTwoFlags ==
  curl.pc = "returned" =>
    \A j \in HeaderPositions :
      (\A m \in HeaderPositions :
         m > j => KeyOf(Parts[m + 1]) # KeyOf(Parts[j + 1]))
      => /\ KeyOf(Parts[j + 1]) \in DOMAIN Descriptor.headers
         /\ Descriptor.headers[KeyOf(Parts[j + 1])] = ValueOf(Parts[j + 1])

\* C15 witness: two header flags with one key and two values, and the
\* mapping holds the later value
C15_Witness ==
  /\ curl.pc = "returned"
  /\ \E i, j \in HeaderPositions :
       /\ i < j
       /\ KeyOf(Parts[i + 1]) = KeyOf(Parts[j + 1])
       /\ ValueOf(Parts[i + 1]) # ValueOf(Parts[j + 1])
       /\ Descriptor.headers[KeyOf(Parts[j + 1])] = ValueOf(Parts[j + 1])

\* the positions of the tokens that qualify as the URL: read as a word of
\* their own, not the literal curl, not beginning with '-'
Qualifying ==
  {i \in FlagPositions(Parts, 1) :
     /\ Parts[i] # << >>
     /\ Parts[i] # <<"curl">>
     /\ ~startsWithDash(Parts[i])}

\* C16: when no token qualifies as the URL the call fails with the 'no URL
\* found' error and returns no descriptor; a descriptor that is returned
\* has a URL that is not empty.
C16_NoUrlFails ==
  /\ curl.pc # "called" /\ Qualifying = {} =>
       /\ curl.pc = "thrown"
       /\ Descriptor.error = "No URL found in CURL command"
  /\ curl.pc = "returned" => Descriptor.url # << >>

\* C16 witness: the call failed on a command whose only token that does
\* not begin with '-' is the argument of a flag
C16_Witness ==
  /\ curl.pc = "thrown"
  /\ Qualifying = {}
  /\ \E i \in DOMAIN Parts : Parts[i] # << >> /\ ~startsWithDash(Parts[i])
                               /\ Parts[i] # <<"curl">>

\* C17: parsing curl -X POST https://example.test/x
\* -H 'Content-Type: application/json' -d '{"a":1}' yields method POST,
\* that url, the headers {Content-Type: application/json} and the body
\* {a: 1}.
C17_FullCommandParsed ==
  curl.curlCommand = FullCommand /\ curl.pc # "called" =>
    /\ curl.pc = "returned"
    /\ Descriptor.method = <<"POST">>
    /\ Descriptor.url = <<"https", ":", "//example.test/x">>
    /\ Descriptor.headers = (<<"Content-Type">> :> <<"application/json">>)
    /\ Descriptor.body =
         JsonValue("object", << >>,
                   (<<"a">> :> JsonValue("number", <<"1">>, << >>)))

First(S) == CHOOSE i \in S : \A j \in S : i <= j

\* C18: the url of a descriptor is the first token that is read as a word of
\* its own, is not the literal curl and does not begin with '-', without
\* its quote characters; no later token replaces it.
C18_UrlIsFirstQualifying ==
  curl.pc = "returned" =>
    /\ Qualifying # {}
    /\ Descriptor.url = StripQuotes(Parts[First(Qualifying)])

\* a token without one layer of wrapping quotes: the same quote character
\* at both ends
Unwrapped(tok) ==
  IF Len(tok) >= 2 /\ tok[1] \in Quotes /\ tok[Len(tok)] = tok[1]
    THEN SubSeq(tok, 2, Len(tok) - 1)
    ELSE tok

\* the data flags that are not themselves the argument of a preceding flag
\* and are followed by a token
DataPositions ==
  {i \in FlagPositions(Parts, 1) : Parts[i] \in DataFlags /\ HasToken(Parts, i)}

\* C19: the body is the token of the (last) data flag without one layer of
\* wrapping quotes: its JSON value when that text is valid JSON, the text
\* itself otherwise; and parsing fails only when no URL was found.
C19_DataParsedOrRaw ==
  /\ curl.pc = "thrown" =>
       \A i \in Qualifying : StripQuotes(Parts[i]) = << >>
  /\ curl.pc = "returned" /\ DataPositions # {} =>
       LET data == Unwrapped(Parts[Last(DataPositions) + 1]) IN
         data # << >> =>
           Descriptor.body = IF JSONparse(data) # SyntaxError
                               THEN JSONparse(data)
                               ELSE JsonValue("string", data, << >>)

\* key and value of a header token that loses only its wrapping quotes
WrappedKey(tok) ==
  LET h == Unwrapped(tok) IN trim(SubSeq(h, 1, FirstColon(h, 1) - 1))

WrappedValue(tok) ==
  LET h == Unwrapped(tok) IN trim(SubSeq(h, FirstColon(h, 1) + 1, Len(h)))

\* the header flags that are not themselves the argument of a preceding
\* flag and whose token, without its wrapping quotes, has a colon after a
\* key
ColonPositions ==
  {i \in FlagPositions(Parts, 1) :
     /\ Parts[i] \in HeaderFlags /\ HasToken(Parts, i)
     /\ FirstColon(Unwrapped(Parts[i + 1]), 1) > 1}

\* C20: a header token with a colon loses only its wrapping quotes and is
\* cut at its first colon: the trimmed text before it is the key, the
\* trimmed text after it, further colons included, is the value the mapping
\* holds for that key (unless a later header flag writes the same key).
C20_HeaderCutAtFirstColon ==
  curl.pc = "returned" =>
    \A i \in ColonPositions :
      (\A m \in ColonPositions :
         m > i => WrappedKey(Parts[m + 1]) # WrappedKey(Parts[i + 1]))
      => /\ WrappedKey(Parts[i + 1]) \in DOMAIN Descriptor.headers
         /\ Descriptor.headers[WrappedKey(Parts[i + 1])]
              = WrappedValue(Parts[i + 1])

\* ------------------------------------------------------ claims on the tools
\* the parser failed in the running curl_request call
ParseFailed == curl.tool = "curl_request" /\ curl.pc \in {"thrown", "answered"}
                 /\ ~curl.result.ok

\* C21: a failure of parseCurlCommand or of the outbound request inside a
\* tool handler comes back as an error result (isError with the failure
\* text), no exception leaves the handler, and when parsing failed no
\* outbound request was issued.
C21_FailuresAreResults ==
  /\ ~curl.answer.thrown
  /\ ParseFailed => curl.fetches = 0
  /\ curl.pc = "answered" /\ (ParseFailed \/ curl.fetched \in Rejections) =>
       /\ curl.answer.isError
       /\ curl.answer.text # "" /\ curl.answer.message # ""

\* C21 witness: a curl_request whose command has no URL was answered with
\* an error result, without a request
C21_Witness ==
  /\ curl.pc = "answered" /\ ParseFailed
  /\ curl.answer.isError /\ curl.fetches = 0

\* -------------------------------------------------- claims on the registry
\* C22: GET /health reports a sessions count equal to the number of entries
\* of the registry and an activeSessions list that is exactly the set of
\* registered identifiers, and leaves the registry as it found it.
C22_HealthReportsRegistry ==
  \A s \in Slots :
    LET h == call[s].health IN
      Done(call[s]) /\ call[s].method = "GET /health" =>
        /\ h.sessions = Cardinality(h.before)
        /\ h.listed /\ h.activeSessions = h.before
        /\ h.after = h.before

\* the transport was constructed, has its identifier and has not reported
\* closure
OpenInitialized(t) ==
  transports[t].state = "open" /\ transports[t].sessionId # NoSession

\* C23: an identifier is in the registry if and only if the transport it
\* maps to is open: no entry maps to a closed transport, and every open,
\* initialized transport is in the registry under its identifier.
C23_RegisteredIffOpen ==
  /\ \A id \in DOMAIN sessions : transports[sessions[id]].state = "open"
  /\ \A t \in Trs :
       OpenInitialized(t) =>
         /\ Registered(transports[t].sessionId)
         /\ sessions[transports[t].sessionId] = t

\* C24: a transport whose initialization callback has not fired is not
\* reachable through the registry, and the only call ever dispatched to it
\* is the initiation call that constructed it.
C24_UninitializedUnreachable ==
  /\ \A id \in DOMAIN sessions : transports[sessions[id]].sessionId # NoSession
  /\ \A s \in Slots :
       call[s].hr # "none" /\ OwnId(call[s]) = NoSession => Initiation(call[s])
  /\ \A s1, s2 \in Slots :
       s1 # s2 /\ call[s1].tr # NoTransport /\ call[s1].tr = call[s2].tr =>
         /\ OwnId(call[s1]) # NoSession
         /\ <<OwnId(call[s1]), call[s1].tr>> \in regLog

\* C24 witness: while an initiation call is being handled by its still
\* uninitialized transport, another client's call naming an identifier has
\* been answered without reaching any transport
C24_Witness ==
  \E s1, s2 \in Slots :
    /\ Initiation(call[s1]) /\ call[s1].hr = "running"
    /\ OwnId(call[s1]) = NoSession
    /\ call[s2].method \in {"GET", "POST", "DELETE"}
    /\ call[s2].sid # NoSession /\ Done(call[s2]) /\ call[s2].hr = "none"

\* the entries the registry gains in a step
Inserted == DOMAIN sessions' \ DOMAIN sessions

\* C25: a transport is inserted into the registry at most once, and an
\* entry is inserted only in the step in which the transport it names gets
\* its identifier, that is by that transport's initialization callback.
C25_RegisteredOnceByOwnCallback ==
  /\ [](\A t \in Trs : Cardinality({p \in regLog : p[2] = t}) <= 1)
  /\ [][\A id \in Inserted :
          /\ transports[sessions'[id]].sessionId = NoSession
          /\ transports'[sessions'[id]].sessionId = id
          /\ Inserted = {id}]_vars

\* C25 witness: a registered session was sent a second initialize request,
\* which was answered
C25_Witness ==
  \E s \in Slots :
    /\ call[s].method = "POST" /\ call[s].init /\ call[s].known
    /\ Done(call[s]) /\ call[s].resp.status = 200
    /\ <<call[s].sid, call[s].tr>> \in regLog

\* C26: an identifier whose entry was removed, by DELETE or by the
\* transport's close notification, is never registered again, and every
\* later call naming it finds no session and reaches no transport.
C26_RemovedStaysRemoved ==
  /\ \A id \in removed : ~Registered(id)
  /\ \A s \in Slots :
       call[s].gone => ~call[s].known /\ call[s].hr = "none"

\* C26 witness: a GET naming a removed identifier was answered 400 after
\* another transport had been registered
C26_Witness ==
  \E s \in Slots :
    /\ call[s].gone /\ call[s].method = "GET" /\ Done(call[s])
    /\ call[s].resp.status = 400
    /\ \E id \in DOMAIN sessions : id # call[s].sid

\* the transport that was registered under the identifier has reported
\* closure
ClosedSession(id) ==
  \E t \in Trs : <<id, t>> \in regLog /\ transports[t].state = "closed"

\* a DELETE naming the identifier is in its handler or has returned
Terminated(id) ==
  \/ id \in deleteReturned
  \/ \E s \in Slots : call[s].method = "DELETE" /\ call[s].sid = id

\* C27: when a session's transport has reported closure and a DELETE naming
\* the session has returned, in whichever order, the identifier is out of
\* the registry, the DELETE handler has not refused the call because the
\* entry was already gone, and no entry was removed but those of closed or
\* terminated sessions.
C27_CloseAndDeleteConverge ==
  /\ \A s \in Slots :
       LET c == call[s] IN
         Done(c) /\ c.method = "DELETE" /\ ClosedSession(c.sid) =>
           /\ ~Registered(c.sid)
           /\ c.hr = "none" => c.resp.status = 200
  /\ \A id \in removed : ClosedSession(id) \/ Terminated(id)

\* C28: with two handlers in flight, every registered identifier has named
\* one transport only, no two identifiers name the same transport, and no
\* step replaces the transport of an identifier that stays registered.
C28_RegistryIsOneToOne ==
  /\ [](\A id1, id2 \in DOMAIN sessions :
          sessions[id1] = sessions[id2] => id1 = id2)
  /\ [](\A id \in DOMAIN sessions :
          {p \in regLog : p[1] = id} = {<<id, sessions[id]>>})
  /\ [][\A id \in DOMAIN sessions \cap DOMAIN sessions' :
          sessions'[id] = sessions[id]]_vars

\* C28 witness: two sessions are registered while the calls that created
\* them are both still being handled
C28_Witness ==
  /\ Cardinality(DOMAIN sessions) = 2
  /\ \A s \in Slots :
       /\ Initiation(call[s]) /\ call[s].pc = "handling"
       /\ Registered(OwnId(call[s]))

\* the handler of call s has called handleRequest and awaits its completion
Driving(s) == call[s].pc = "handling" /\ call[s].hr = "running"

\* C29: no handler is driving a transport (has called handleRequest on it
\* and awaits its completion) whose identifier has been removed from the
\* registry.
C29_NoDrivingAfterRemoval ==
  \A s \in Slots : Driving(s) => OwnId(call[s]) \notin removed

\* a call that named a registered session and was dispatched to it
Continuation(c) == c.sid # NoSession /\ c.known

\* C30: of two calls naming the same session, the one whose handler was
\* entered first has handleRequest called first: when the later one has
\* been handed to the transport, so has the earlier one, before it.
C30_DispatchInEntryOrder ==
  \A s1, s2 \in Slots :
    LET a == call[s1]
        b == call[s2]
    IN  /\ Continuation(a) /\ Continuation(b) /\ a.sid = b.sid
        /\ a.enteredAt < b.enteredAt /\ b.drivenAt # 0
        => a.drivenAt # 0 /\ a.drivenAt < b.drivenAt

\* C30 witness: two POSTs naming the same session are both with the
\* transport, in flight together
C30_Witness ==
  \E s1, s2 \in Slots :
    /\ call[s1].method = "POST" /\ call[s2].method = "POST"
    /\ Continuation(call[s1]) /\ Continuation(call[s2])
    /\ call[s1].sid = call[s2].sid
    /\ call[s1].enteredAt < call[s2].enteredAt
    /\ Driving(s1) /\ Driving(s2)

\* C31: the Router serialises nothing per session: a POST or GET naming a
\* registered identifier is handed to the registered transport as soon as
\* its handler is entered, whatever other call is in flight on that
\* transport, and the handler never answers it 400.
C31_NoMutualExclusion ==
  \A s \in Slots :
    LET c == call[s] IN
      Continuation(c) /\ c.method \in {"POST", "GET"} =>
        /\ c.drivenAt # 0 /\ c.hr # "none"
        /\ <<c.sid, c.tr>> \in regLog
        /\ Done(c) => c.resp.status # 400

\* C31 witness: a POST and a GET naming the same session are both with the
\* same transport, each on a sink of its own: end() was called on the sink
\* of one of them only
C31_Witness ==
  \E s1, s2 \in Slots :
    /\ call[s1].method = "POST" /\ call[s2].method = "GET"
    /\ Continuation(call[s1]) /\ call[s1].sid = call[s2].sid
    /\ Driving(s1) /\ Driving(s2) /\ call[s1].tr = call[s2].tr
    /\ call[s1].ends = 1 /\ call[s2].ends = 0
    /\ call[s1].res # call[s2].res

\* C32: when the transport finished the sink (called end()) while the
\* handler's promise was pending and did not reject, the response shows the
\* sink as it was at that call: no setHeader, writeHead or end() made
\* afterwards is visible in it.
C32_NothingAfterEndVisible ==
  \A s \in Slots :
    LET c == call[s] IN
      Done(c) /\ c.firstPending /\ c.hr # "rejected" =>
        /\ c.resp.status = c.first.statusCode
        /\ c.resp.hdrs.sid = c.first.headers.sid
        /\ c.first.headers.acao # "" => c.resp.hdrs.acao = c.first.headers.acao
        /\ c.first.headers.acao = "" => c.resp.hdrs.acao \notin OriginVals
        /\ c.resp.body \in BodyFor(c.first.data)

\* a POST naming a registered identifier is in the slot
ReusingPost(c) == c.method = "POST" /\ Continuation(c)

\* a transport reports closure in the step
Closes ==
  \E t \in Trs : transports[t].state = "open" /\ transports'[t].state = "closed"

\* C33: a POST whose identifier is in the registry is served by the
\* transport registered under it, whatever its payload: its handler
\* constructs no transport and connects no server, and from its entry to its
\* answer the registry changes only if a transport reports closure.
C33_ReuseLeavesRegistry ==
  /\ [](\A s \in One :
          ReusingPost(call[s]) =>
            /\ call[s].pc # "connecting" /\ call[s].hr # "none"
            /\ <<call[s].sid, call[s].tr>> \in regLog)
  /\ [][\A s \in One :
          ReusingPost(call'[s]) =>
            /\ nextTr' = nextTr
            /\ call[s].pc = "free" => call'[s].tr = sessions[call'[s].sid]
            /\ sessions' # sessions => Closes]_vars

\* C33 witness: an initialize request naming a registered session is with
\* the registered transport, the only transport constructed so far
C33_Witness ==
  \E s \in One :
    /\ ReusingPost(call[s]) /\ call[s].init /\ Driving(s)
    /\ Registered(call[s].sid) /\ sessions[call[s].sid] = call[s].tr
    /\ nextTr = 2

\* a POST carrying an identifier that was not in the registry at its entry
UnknownPost(c) == c.method = "POST" /\ c.sid # NoSession /\ ~c.known

\* C34: a POST carrying an identifier that is not in the registry creates
\* no session, initialize payload or not: no transport is constructed for
\* it, its handler leaves the registry and the transports as they were, and
\* it is answered 400 with the -32000 envelope.
C34_UnknownIdNeverCreates ==
  /\ [](\A s \in One :
          UnknownPost(call[s]) =>
            /\ call[s].tr = NoTransport /\ call[s].hr = "none"
            /\ call[s].pc = "done" /\ Envelope(call[s], 400, "rpc-32000"))
  /\ [][\A s \in One :
          call[s].pc = "free" /\ UnknownPost(call'[s]) =>
            /\ sessions' = sessions /\ transports' = transports
            /\ nextTr' = nextTr /\ nextId' = nextId]_vars

\* C34 witness: an initialize request carrying an unregistered identifier
\* was answered 400 while another session is registered
C34_Witness ==
  \E s \in One :
    /\ UnknownPost(call[s]) /\ call[s].init /\ Done(call[s])
    /\ call[s].resp.status = 400 /\ call[s].resp.body = "rpc-32000"
    /\ DOMAIN sessions # {}

\* the handler of call s answers in the step in which it is entered, with
\* the 400 of a missing or unknown identifier or as OPTIONS
TurnedAway(s) ==
  /\ call[s].pc = "free" /\ call'[s].pc = "done" /\ call'[s].hr = "none"
  /\ \/ call'[s].resp.status = 400
     \/ call'[s].method = "OPTIONS"

\* the entries the registry loses in a step
Deleted == DOMAIN sessions \ DOMAIN sessions'

\* a DELETE naming the identifier enters its handler in the step
DeleteEnters(id) ==
  \E s \in Slots :
    call[s].pc = "free" /\ call'[s].method = "DELETE" /\ call'[s].sid = id

\* C35: a call turned away with 400 and an OPTIONS call leave the registry
\* and the transports as they were; an entry appears only when a transport
\* gets its identifier (its initialization callback) and disappears only
\* in a DELETE handler or when a transport reports closure.
C35_RegistryChangesOnlyByCallbacks ==
  /\ [][\A s \in One :
          TurnedAway(s) =>
            /\ sessions' = sessions /\ transports' = transports
            /\ nextTr' = nextTr]_vars
  /\ [][\A id \in Inserted :
          /\ transports[sessions'[id]].sessionId = NoSession
          /\ transports'[sessions'[id]].sessionId = id]_vars
  /\ [][\A id \in Deleted : DeleteEnters(id) \/ Closes]_vars

\* C35 witness: a DELETE naming an unknown identifier was answered 400
\* while a session is registered
C35_Witness ==
  \E s \in One :
    /\ call[s].method = "DELETE" /\ Done(call[s]) /\ call[s].hr = "none"
    /\ call[s].resp.status = 400 /\ ~call[s].known
    /\ DOMAIN sessions # {}

\* the initiation call failed before its transport fired the
\* initialization callback: server.connect threw, or handleRequest rejected
\* with nothing written on the sink's end()
FailedBeforeInit(c) ==
  /\ Initiation(c) /\ c.tr # NoTransport /\ OwnId(c) = NoSession
  /\ \/ c.hr = "none" /\ c.pc # "connecting"
     \/ c.hr = "rejected" /\ c.ends = 0
  \* the framework has read the handler's settled promise
  /\ c.pc # "settled"

\* C36: an initiation call that failed before its transport's
\* initialization callback fired is answered with the 500 envelope, and its
\* transport has no entry in the registry, then or later.
C36_FailedInitiationIs500 ==
  /\ \A s \in One :
       FailedBeforeInit(call[s]) =>
         /\ Done(call[s]) /\ Envelope(call[s], 500, "rpc-32603")
         /\ \A p \in regLog : p[2] # call[s].tr
  /\ \A t \in Trs :
       transports[t].sessionId = NoSession => \A p \in regLog : p[2] # t
====
